---- MODULE Spec2Model ----
(***************************************************************************)
(* Model of blender/asset.py: search_env_meshes (bone-graph builder and    *)
(* path-hash index) and import_armature_physics_constraints (physics-rig   *)
(* mapper).                                                                *)
(*                                                                         *)
(* Strings are sequences of UTF-8 byte values, so that concatenation, the  *)
(* empty string and hashing behave as they do on Python str/bytes.         *)
(* A 32-bit hash value is the set of its bit positions (0 = least          *)
(* significant) that are 1.                                                *)
(***************************************************************************)
EXTENDS Integers, Sequences, FiniteSets, TLC

VARIABLES
    env,                      \* the UnityPy Environment given to search_env_meshes
    pc,                       \* position in the program
    static_mesh_gameobjects,  \* list of GameObject ids
    transform_roots,          \* list of Transform path ids
    rootIdx,                  \* index of the current root in transform_roots
    armature,                 \* the Armature being built for the current root
    path_id_tbl,              \* path id -> Bone, local to one root
    callStack,                \* pending dfs(transform, parent) calls, next call first
    bones,                    \* heap of Bone objects; a Bone is its index
    made,                     \* made[b] = path id of the Transform Bone b was built for
    armatures,                \* list of finished Armatures
    raisedAt,                 \* path id of the Transform whose visit raised KeyError, or 0
    physIdx,                  \* index in armatures of the Armature whose physics is imported
    walk,                     \* Bones bone.dfs_generator() has still to yield
    scene,                    \* heap of Blender objects; an object is its index
    pose_constraints,         \* constraints added to pose bones
    target_rigid_bodies,      \* dict of the current call, as its list of (name, object) items
    callStart,                \* sizes of scene and pose_constraints when the current call began
    run                       \* number of calls made so far for the Armature physIdx

physVars == <<physIdx, walk, scene, pose_constraints, target_rigid_bodies, callStart, run>>

vars == <<env, pc, static_mesh_gameobjects, transform_roots, rootIdx, armature,
          path_id_tbl, callStack, bones, made, armatures, raisedAt, physVars>>

-----------------------------------------------------------------------------
(* Bounds of the model *)

MaxNodes == 4

\* calls of import_armature_physics_constraints made for one Armature
MaxRuns == 2

-----------------------------------------------------------------------------
(* Strings *)

Slash == 47

sEmpty == <<>>
sPosition == <<80,111,115,105,116,105,111,110>>
sHips == <<72,105,112,115>>
sSpine == <<83,112,105,110,101>>
sHead == <<72,101,97,100>>
sNeck == <<78,101,99,107>>
sBody == <<66,111,100,121>>
sPlumless == <<112,108,117,109,108,101,115,115>>
sBuckeroo == <<98,117,99,107,101,114,111,111>>
sRigidbody == <<95,114,105,103,105,100,98,111,100,121>>
sPivotRigidbody == <<95,112,105,118,111,116,95,114,105,103,105,100,98,111,100,121>>
sTargetRigidbody == <<95,116,97,114,103,101,116,95,114,105,103,105,100,98,111,100,121>>
sUnderscore == <<95>>
sSpringBoneJoint == <<83,112,114,105,110,103,66,111,110,101,74,111,105,110,116>>
sNoCollisionJoint == <<78,111,67,111,108,108,105,115,105,111,110,74,111,105,110,116>>

-----------------------------------------------------------------------------
(* get_name_hash: CRC-32 (zlib polynomial, reflected) of the UTF-8 bytes *)

Xor(a, b) == (a \ b) \cup (b \ a)

Shr(a, k) == {i - k : i \in {j \in a : j >= k}}

PolyBits == {31,30,29,27,26,24,23,21,20,19,15,9,8,5}

ByteBits == [b \in 0..255 |-> {k \in 0..7 : (b \div (2^k)) % 2 = 1}]

RECURSIVE CrcShift(_,_)
CrcShift(c, k) ==
    IF k = 0 THEN c
    ELSE CrcShift(IF 0 \in c THEN Xor(Shr(c, 1), PolyBits) ELSE Shr(c, 1), k - 1)

CrcTable == [b \in SUBSET (0..7) |-> CrcShift(b, 8)]

RECURSIVE CrcUpdate(_,_)
CrcUpdate(s, n) ==
    IF n = 0 THEN 0..31
    ELSE LET c == CrcUpdate(s, n - 1)
         IN  Xor(Shr(c, 8), CrcTable[Xor(c \cap (0..7), ByteBits[s[n]])])

get_name_hash(s) == (0..31) \ CrcUpdate(s, Len(s))

-----------------------------------------------------------------------------
(* Dictionaries and lists *)

\* faulty variant: a key already present keeps its first value
DictSet_KeepFirst(d, k, v) ==
    IF k \in DOMAIN d THEN d
    ELSE [x \in (DOMAIN d) \cup {k} |-> IF x = k THEN v ELSE d[x]]

\* d[k] = v on a Python dict
DictSet(d, k, v) == [x \in (DOMAIN d) \cup {k} |-> IF x = k THEN v ELSE d[x]]

EmptyDict == [x \in {} |-> 0]

RECURSIVE Reverse(_)
Reverse(s) == IF s = <<>> THEN <<>> ELSE Reverse(Tail(s)) \o <<Head(s)>>

-----------------------------------------------------------------------------
(* The input: a UnityPy Environment holding a forest of Transforms          *)
(* Transform i has path id i (1..n) and belongs to GameObject i.  A null     *)
(* PPtr has path id 0.                                                      *)

NameSchemes ==
    << <<sPosition, sHips, sSpine, sHead, sNeck, sBody>>,
       <<sBody, sPosition, sHips, sHips, sEmpty, sPosition>>,
       <<sBody, sPlumless, sBuckeroo, sEmpty, sHips, sSpine>>,
       <<sBody, sPlumless, sBuckeroo, sPlumless, sHips, sBuckeroo>> >>

SkinSchemes == {"none", "all", "rest"}

ScriptNames == {"SpringSphereCollider", "SpringCapsuleCollider", "SekaiSpringBone",
                "SpringManager", "Other", ""}

NoPhys == [kind |-> "", carriers |-> "none", pivot |-> -1]

PhysRig == [kind |-> "SekaiSpringBone", carriers |-> "rest", pivot |-> 1]

\* every Transform but the first carries a spring bone whose pivot is the previous id
PhysPrev == [kind |-> "SekaiSpringBone", carriers |-> "rest", pivot |-> -2]

\* single-carrier schemes: the last Transform carries one script
PhysLast(n) ==
    [kind : {"SekaiSpringBone", "SpringSphereCollider", "Other"},
     carriers : {"last"}, pivot : 0..n]
    \cup [kind : {"SpringSphereCollider", "SpringCapsuleCollider", "SpringManager", ""},
          carriers : {"last"}, pivot : {-1}]

\* the last Transform carries a spring bone script and then a sphere collider script
PhysTwo == [kind |-> "SekaiSpringBone", carriers |-> "two", pivot |-> 1]

Forests(n) == {f \in [1..n -> 0..n] : \A i \in 1..n : f[i] < i}

\* the field dictionary read_typetree() returns for the script on GameObject i
TypeTree(i, ph) ==
    LET base == [radius |-> 10 * i, height |-> 100 + i,
                 yAngleLimits |-> [min |-> 0 - 10 * i, max |-> 10 * i],
                 zAngleLimits |-> [min |-> 0 - 5, max |-> 20 + i],
                 angularStiffness |-> 3]
    IN  IF ph.pivot >= 0
        THEN [pivotNode |-> [m_PathID |-> ph.pivot]] @@ base
        ELSE IF ph.pivot = -2
        THEN [pivotNode |-> [m_PathID |-> i - 1]] @@ base
        ELSE base

Script(i, kind, tree) ==
    [type     |-> "MonoBehaviour",
     m_Script |-> [path_id |-> IF kind = "" THEN 0 ELSE 100 + i, name |-> kind],
     typetree |-> tree]

Components(i, n, ph) ==
    LET carries == \/ ph.carriers \in {"last", "two"} /\ i = n
                   \/ ph.carriers = "rest" /\ i >= 2
    IN  <<[type |-> "Transform"]>>
        \o (IF carries THEN <<Script(i, ph.kind, TypeTree(i, ph))>> ELSE <<>>)
        \o (IF carries /\ ph.carriers = "two"
            THEN <<Script(i, "SpringSphereCollider", TypeTree(i, NoPhys))>>
            ELSE <<>>)

RECURSIVE IdsFrom(_,_,_)
IdsFrom(i, n, S) ==
    IF i > n THEN <<>>
    ELSE (IF i \in S THEN <<i>> ELSE <<>>) \o IdsFrom(i + 1, n, S)

RECURSIVE ObjectsFrom(_,_)
ObjectsFrom(i, n) ==
    IF i > n THEN <<>>
    ELSE <<[type |-> "GameObject", path_id |-> i],
           [type |-> "Transform", path_id |-> i]>> \o ObjectsFrom(i + 1, n)

MakeEnv(n, f, rev, ns, skin, ph) ==
    [n          |-> n,
     objects    |-> IF rev THEN Reverse(ObjectsFrom(1, n)) ELSE ObjectsFrom(1, n),
     transform  |-> [i \in 1..n |->
                        [m_Father     |-> f[i],
                         m_Children   |-> IdsFrom(1, n, {j \in 1..n : f[j] = i}),
                         m_GameObject |-> i]],
     gameObject |-> [i \in 1..n |->
                        LET sk == \/ skin = "all"
                                  \/ skin = "rest" /\ i >= 2
                        IN  [m_Name                |-> NameSchemes[ns][i],
                             m_SkinnedMeshRenderer |-> sk,
                             m_MeshRenderer        |-> ~sk,
                             m_Components          |-> Components(i, n, ph)]]]

\* the environments of the model: every forest of at most MaxNodes Transforms,
\* with either every naming, skinning and object order and a whole-rig physics
\* scheme, or the first naming, all skinned, and a single-carrier scheme
IsEnv(e) ==
    \E n \in 1..MaxNodes : \E f \in Forests(n) :
        \/ \E rev \in BOOLEAN, ns \in 1..Len(NameSchemes), skin \in SkinSchemes,
              ph \in {NoPhys, PhysRig, PhysPrev} :
                e = MakeEnv(n, f, rev, ns, skin, ph)
        \/ \E ph \in PhysLast(n) \cup {PhysTwo} :
                e = MakeEnv(n, f, FALSE, 1, "all", ph)

-----------------------------------------------------------------------------
(* Bone, BonePhysics, Armature *)

\* Python None where a string is expected
None == <<-1>>

NoPhysics == [type |-> "None"]

\* BonePhysics.from_dict: the fields of the dictionary the class declares
from_dict(physics) ==
    [type             |-> "NoPhysics",
     pivot            |-> None,
     radius           |-> physics.radius,
     height           |-> physics.height,
     yAngleLimits     |-> physics.yAngleLimits,
     zAngleLimits     |-> physics.zAngleLimits,
     angularStiffness |-> physics.angularStiffness]

Bone(name, parent, children, global_path, physics) ==
    [name |-> name, parent |-> parent, children |-> children,
     global_path |-> global_path, physics |-> physics]

-----------------------------------------------------------------------------
(* search_env_meshes *)

NoArmature == [name |-> sEmpty, root |-> 0, bone_name_tbl |-> EmptyDict,
               bone_path_hash_tbl |-> EmptyDict, skinned_mesh_gameobject |-> 0]

\* the target body '<armature>_<bone>_target_rigidbody' as lines 319-341 leave it
TargetBodyLeft(fullname, radius) ==
    [name        |-> fullname,
     data        |-> [mesh |-> "uv_sphere", radius |-> radius],
     rigid_body  |-> [type |-> "ACTIVE",
                      collision_shape |-> "SPHERE",
                      collision_collections0 |-> TRUE,
                      kinematic |-> FALSE],
     parent      |-> [kind |-> "armature", id |-> 1],
     parent_bone |-> sEmpty,
     parent_type |-> "OBJECT"]

\* the Blender scene the import starts on: empty, or (for the environments
\* named after the first naming, objects in id order) holding the target body
\* of bone 'Hips' of an armature 'Position' left by an earlier import
InitialScenes(e) ==
    IF e.gameObject[1].m_Name = sPosition /\ e.objects[1].path_id = 1
    THEN {<<>>,
          <<TargetBodyLeft(sPosition \o sUnderscore \o sHips \o sTargetRigidbody, 10)>>}
    ELSE {<<>>}

Init ==
    /\ IsEnv(env)
    /\ pc = "collect"
    /\ static_mesh_gameobjects = <<>>
    /\ transform_roots = <<>>
    /\ rootIdx = 0
    /\ armature = NoArmature
    /\ path_id_tbl = EmptyDict
    /\ callStack = <<>>
    /\ bones = <<>>
    /\ made = <<>>
    /\ armatures = <<>>
    /\ raisedAt = 0
    /\ physIdx = 0
    /\ walk = <<>>
    /\ scene \in InitialScenes(env)
    /\ pose_constraints = <<>>
    /\ target_rigid_bodies = <<>>
    /\ callStart = [scene |-> Len(scene), poses |-> 0]
    /\ run = 0

\* lines 16-22, folded over env.objects
RECURSIVE CollectStatic(_)
CollectStatic(objs) ==
    IF objs = <<>> THEN <<>>
    ELSE LET obj == Head(objs)
         IN  (IF obj.type = "GameObject" /\ env.gameObject[obj.path_id].m_MeshRenderer
              THEN <<obj.path_id>> ELSE <<>>) \o CollectStatic(Tail(objs))

RECURSIVE CollectRoots(_)
CollectRoots(objs) ==
    IF objs = <<>> THEN <<>>
    ELSE LET obj == Head(objs)
         IN  (IF obj.type = "Transform" /\ env.transform[obj.path_id].m_Father = 0
              THEN <<obj.path_id>> ELSE <<>>) \o CollectRoots(Tail(objs))

Collect ==
    /\ pc = "collect"
    /\ static_mesh_gameobjects' = CollectStatic(env.objects)
    /\ transform_roots' = CollectRoots(env.objects)
    /\ rootIdx' = 1
    /\ pc' = "roots"
    /\ UNCHANGED <<env, armature, path_id_tbl, callStack, bones, made, armatures, raisedAt>>
    /\ UNCHANGED physVars

\* faulty variant: the id table of the previous root is carried over
NewPathIdTbl_Kept(tbl) == tbl

\* line 30: a new, empty dict for every root
NewPathIdTbl(tbl) == EmptyDict

\* lines 26-30 and the call of line 87
BeginRoot ==
    /\ pc = "roots"
    /\ rootIdx <= Len(transform_roots)
    /\ LET root == transform_roots[rootIdx]
       IN  /\ armature' = [NoArmature EXCEPT
                              !.name = env.gameObject[env.transform[root].m_GameObject].m_Name]
           /\ callStack' = <<[transform |-> root, parent |-> 0]>>
    /\ path_id_tbl' = NewPathIdTbl(path_id_tbl)
    /\ pc' = "dfs"
    /\ UNCHANGED <<env, static_mesh_gameobjects, transform_roots, rootIdx, bones, made,
                   armatures, raisedAt>>
    /\ UNCHANGED physVars

\* faulty variant: the root's path is its own name and every child joins with "/"
PathFromRoot_WithRootName(parent, name) ==
    IF parent # 0 THEN bones[parent].global_path \o <<Slash>> \o name ELSE name

\* lines 39-43
PathFromRoot(parent, name) ==
    IF parent # 0 /\ bones[parent].global_path # sEmpty
    THEN bones[parent].global_path \o <<Slash>> \o name
    ELSE IF parent # 0 THEN name ELSE sEmpty

\* lines 54-61
PhyType(scriptName) ==
    CASE scriptName = "SpringSphereCollider"  -> "SphereCollider"
      [] scriptName = "SpringCapsuleCollider" -> "CapsuleCollider"
      [] scriptName = "SekaiSpringBone"       -> "SpringBone"
      [] scriptName = "SpringManager"         -> "SpringManager"
      [] OTHER                                -> "None"

\* line 66: the lookup succeeds only for a path id already in path_id_tbl
PivotResolves(physics) == physics.pivotNode.m_PathID \in DOMAIN path_id_tbl

\* faulty variant: the pivot is recorded by the pivot Bone's path instead of its name
Descriptor_PivotByPath(physics, phy_type) ==
    IF "pivotNode" \in DOMAIN physics
    THEN [from_dict(physics) EXCEPT
             !.type = phy_type,
             !.pivot = bones[path_id_tbl[physics.pivotNode.m_PathID]].global_path]
    ELSE [from_dict(physics) EXCEPT !.type = phy_type]

\* lines 63-66 for one recognised script
Descriptor(physics, phy_type) ==
    IF "pivotNode" \in DOMAIN physics
    THEN [from_dict(physics) EXCEPT
             !.type = phy_type,
             !.pivot = bones[path_id_tbl[physics.pivotNode.m_PathID]].name]
    ELSE [from_dict(physics) EXCEPT !.type = phy_type]

\* lines 46-66: the component loop; raised = the KeyError of line 66
RECURSIVE ScanComponents(_,_)
ScanComponents(components, bonePhysics) ==
    IF components = <<>> THEN [raised |-> FALSE, bonePhysics |-> bonePhysics]
    ELSE LET component == Head(components)
             rest == Tail(components)
         IN  IF component.type = "MonoBehaviour" /\ component.m_Script.path_id # 0
                   /\ PhyType(component.m_Script.name) # "None"
             THEN IF "pivotNode" \in DOMAIN component.typetree
                       /\ ~PivotResolves(component.typetree)
                  THEN [raised |-> TRUE, bonePhysics |-> bonePhysics]
                  ELSE ScanComponents(rest, Descriptor(component.typetree,
                                                       PhyType(component.m_Script.name)))
             ELSE ScanComponents(rest, bonePhysics)

\* lines 36-37
MarkSkinned(arm, goId) ==
    IF env.gameObject[goId].m_SkinnedMeshRenderer
    THEN [arm EXCEPT !.skinned_mesh_gameobject = goId]
    ELSE arm

\* faulty variant: the hash index is keyed by the hash of the name, not of the path
Register_HashOfName(arm, bone, b) ==
    [arm EXCEPT
        !.bone_name_tbl = DictSet(@, bone.name, b),
        !.bone_path_hash_tbl = DictSet(@, get_name_hash(bone.name), b),
        !.root = IF bone.parent = 0 THEN b ELSE @]

\* lines 79-82
Register(arm, bone, b) ==
    [arm EXCEPT
        !.bone_name_tbl = DictSet(@, bone.name, b),
        !.bone_path_hash_tbl = DictSet(@, get_name_hash(bone.global_path), b),
        !.root = IF bone.parent = 0 THEN b ELSE @]

\* faulty variant: every non-root Bone is appended to the first Bone's children
Attach_ToFirstBone(heap, bone, b) ==
    IF bone.parent = 0 THEN Append(heap, bone)
    ELSE Append([heap EXCEPT ![1].children = Append(@, b)], bone)

\* lines 83-84
Attach(heap, bone, b) ==
    IF bone.parent = 0 THEN Append(heap, bone)
    ELSE Append([heap EXCEPT ![bone.parent].children = Append(@, b)], bone)

\* lines 85-86: the recursive calls, in list order, run before the caller's siblings
ChildCalls(children, b) == [k \in 1..Len(children) |-> [transform |-> children[k], parent |-> b]]

\* one call of dfs (lines 32-86)
Visit ==
    /\ pc = "dfs"
    /\ callStack # <<>>
    /\ LET root == Head(callStack).transform
           parent == Head(callStack).parent
           goId == env.transform[root].m_GameObject
           gameObject == env.gameObject[goId]
           name == gameObject.m_Name
           path_from_root == PathFromRoot(parent, name)
           scan == ScanComponents(gameObject.m_Components, NoPhysics)
           b == Len(bones) + 1
           bone == Bone(name, parent, <<>>, path_from_root, scan.bonePhysics)
       IN  IF scan.raised
           THEN /\ pc' = "raised"
                /\ raisedAt' = root
                /\ armature' = MarkSkinned(armature, goId)
                /\ UNCHANGED <<path_id_tbl, callStack, bones, made>>
           ELSE /\ path_id_tbl' = DictSet(path_id_tbl, root, b)
                /\ armature' = Register(MarkSkinned(armature, goId), bone, b)
                /\ bones' = Attach(bones, bone, b)
                /\ made' = Append(made, root)
                /\ callStack' = ChildCalls(env.transform[root].m_Children, b)
                                    \o Tail(callStack)
                /\ UNCHANGED <<pc, raisedAt>>
    /\ UNCHANGED <<env, static_mesh_gameobjects, transform_roots, rootIdx, armatures>>
    /\ UNCHANGED physVars

\* faulty variant: the Armature is kept whether or not a skinned mesh was seen
Finished_Always(list, arm) == Append(list, arm)

\* lines 88-89
Finished(list, arm) ==
    IF arm.skinned_mesh_gameobject # 0 THEN Append(list, arm) ELSE list

EndRoot ==
    /\ pc = "dfs"
    /\ callStack = <<>>
    /\ armatures' = Finished(armatures, armature)
    /\ rootIdx' = rootIdx + 1
    /\ pc' = "roots"
    /\ UNCHANGED <<env, static_mesh_gameobjects, transform_roots, armature, path_id_tbl,
                   callStack, bones, made, raisedAt>>
    /\ UNCHANGED physVars

\* line 90
Return ==
    /\ pc = "roots"
    /\ rootIdx > Len(transform_roots)
    /\ pc' = "done"
    /\ UNCHANGED <<env, static_mesh_gameobjects, transform_roots, rootIdx, armature,
                   path_id_tbl, callStack, bones, made, armatures, raisedAt>>
    /\ UNCHANGED physVars

-----------------------------------------------------------------------------
(* Bone.recursive_locate_by_name and Bone.dfs_generator *)

RECURSIVE recursive_locate_by_name(_,_)
RECURSIVE LocateAmong(_,_)
recursive_locate_by_name(b, name) ==
    IF bones[b].name = name THEN b ELSE LocateAmong(bones[b].children, name)

LocateAmong(children, name) ==
    IF children = <<>> THEN 0
    ELSE IF recursive_locate_by_name(Head(children), name) # 0
         THEN recursive_locate_by_name(Head(children), name)
         ELSE LocateAmong(Tail(children), name)

RECURSIVE dfs_generator(_)
RECURSIVE YieldAmong(_)
dfs_generator(b) == <<b>> \o YieldAmong(bones[b].children)

YieldAmong(children) ==
    IF children = <<>> THEN <<>>
    ELSE dfs_generator(Head(children)) \o YieldAmong(Tail(children))

-----------------------------------------------------------------------------
(* import_armature_physics_constraints                                      *)
(* Lengths are in 1/1000 of a unit, factors in 1/10, angles in degrees on    *)
(* the descriptor and in 1/1000 radian on the constraint.                    *)

PIVOT_SIZE == 4
SPHERE_RADIUS_FACTOR == 5
CAPSULE_RADIUS_FACTOR == 10
CAPSULE_HEIGHT_FACTOR == 10
SPRINGBONE_RADIUS_FACTOR == 5

Scaled(x, factor) == (x * factor) \div 10

\* math.radians, in 1/1000 radian
radians(deg) == (deg * 17453) \div 1000

\* BonePhysicsType.Collider and BonePhysicsType.Bone flag tests
IsCollider(type) == type \in {"SphereCollider", "CapsuleCollider"}

IsBone(type) == type = "SpringBone"

ArmatureObject(k) == [kind |-> "armature", id |-> k]

Object(o) == [kind |-> "object", id |-> o]

\* `name in bpy.context.scene.objects` and `bpy.context.scene.objects[name]`
InScene(sc, name) == \E o \in 1..Len(sc) : sc[o].name = name

SceneObject(sc, name) ==
    CHOOSE o \in 1..Len(sc) : sc[o].name = name /\ \A q \in 1..(o - 1) : sc[q].name # name

\* lines 314-315
get_rb_name(armName, bone_name, is_pivot) ==
    armName \o sUnderscore \o bone_name
        \o (IF is_pivot THEN sPivotRigidbody ELSE sTargetRigidbody)

\* lines 292-311
Collider(k, child) ==
    [name        |-> bones[child].name \o sRigidbody,
     data        |-> IF bones[child].physics.type = "SphereCollider"
                     THEN [mesh |-> "uv_sphere",
                           radius |-> Scaled(bones[child].physics.radius, SPHERE_RADIUS_FACTOR)]
                     ELSE [mesh |-> "cylinder",
                           radius |-> Scaled(bones[child].physics.radius, CAPSULE_RADIUS_FACTOR),
                           depth |-> Scaled(bones[child].physics.height, CAPSULE_HEIGHT_FACTOR)],
     rigid_body  |-> [type |-> "PASSIVE",
                      collision_shape |-> IF bones[child].physics.type = "SphereCollider"
                                          THEN "SPHERE" ELSE "CAPSULE",
                      kinematic |-> TRUE],
     parent      |-> ArmatureObject(k),
     parent_bone |-> bones[child].name,
     parent_type |-> "BONE"]

\* lines 319-341: the body created when the name is not in the scene
BoneRigidbody(k, fullname, bone_name, is_pivot, radius) ==
    [name        |-> fullname,
     data        |-> [mesh |-> "uv_sphere", radius |-> radius],
     rigid_body  |-> [type |-> "ACTIVE",
                      collision_shape |-> "SPHERE",
                      collision_collections0 |-> ~is_pivot,
                      kinematic |-> is_pivot],
     parent      |-> ArmatureObject(k),
     parent_bone |-> IF is_pivot THEN bone_name ELSE sEmpty,
     parent_type |-> IF is_pivot THEN "BONE" ELSE "OBJECT"]

\* faulty variant: a target body found in the scene is entered in target_rigid_bodies
Reused_Registered(st, fullname, is_pivot) ==
    [scene   |-> st.scene,
     targets |-> IF is_pivot \/ \E i \in 1..Len(st.targets) : st.targets[i][1] = fullname
                 THEN st.targets
                 ELSE Append(st.targets, <<fullname, SceneObject(st.scene, fullname)>>),
     obj     |-> SceneObject(st.scene, fullname)]

\* line 343: the body of that name is returned; target_rigid_bodies is not touched
Reused(st, fullname, is_pivot) ==
    [scene |-> st.scene, targets |-> st.targets, obj |-> SceneObject(st.scene, fullname)]

\* faulty variant: the body is created without looking the name up
ensure_bone_rigidbody_AlwaysCreate(st, k, bone_name, is_pivot, radius) ==
    LET fullname == get_rb_name(armatures[k].name, bone_name, is_pivot)
    IN  [scene   |-> Append(st.scene,
                            BoneRigidbody(k, fullname, bone_name, is_pivot, radius)),
         targets |-> IF is_pivot THEN st.targets
                     ELSE Append(st.targets, <<fullname, Len(st.scene) + 1>>),
         obj     |-> Len(st.scene) + 1]

\* lines 316-343: st = [scene, targets]; the result adds obj, the body returned
ensure_bone_rigidbody(st, k, bone_name, is_pivot, radius) ==
    LET fullname == get_rb_name(armatures[k].name, bone_name, is_pivot)
    IN  IF ~InScene(st.scene, fullname)
        THEN [scene   |-> Append(st.scene,
                                 BoneRigidbody(k, fullname, bone_name, is_pivot, radius)),
              targets |-> IF is_pivot THEN st.targets
                          ELSE Append(st.targets, <<fullname, Len(st.scene) + 1>>),
              obj     |-> Len(st.scene) + 1]
        ELSE Reused(st, fullname, is_pivot)

\* faulty variant: the angular limits are copied axis for axis, without the swap
SpringBoneJoint_NoSwap(physics, pivot, target) ==
    [name   |-> sSpringBoneJoint,
     data   |-> [mesh |-> "none"],
     parent |-> Object(pivot),
     rigid_body_constraint |->
        [type |-> "GENERIC_SPRING",
         use_limit_lin_x |-> TRUE, use_limit_lin_y |-> TRUE, use_limit_lin_z |-> TRUE,
         limit_lin_x_lower |-> 0, limit_lin_x_upper |-> 0,
         limit_lin_y_lower |-> 0, limit_lin_y_upper |-> 0,
         limit_lin_z_lower |-> 0, limit_lin_z_upper |-> 0,
         use_limit_ang_x |-> FALSE, use_limit_ang_y |-> TRUE, use_limit_ang_z |-> TRUE,
         limit_ang_y_lower |-> radians(physics.yAngleLimits.min),
         limit_ang_y_upper |-> radians(physics.yAngleLimits.max),
         limit_ang_z_lower |-> radians(physics.zAngleLimits.min),
         limit_ang_z_upper |-> radians(physics.zAngleLimits.max),
         use_spring_ang_x |-> TRUE, use_spring_ang_y |-> TRUE, use_spring_ang_z |-> TRUE,
         spring_stiffness_y |-> physics.angularStiffness,
         spring_stiffness_z |-> physics.angularStiffness,
         object1 |-> pivot,
         object2 |-> target]]

\* lines 348-385
SpringBoneJoint(physics, pivot, target) ==
    [name   |-> sSpringBoneJoint,
     data   |-> [mesh |-> "none"],
     parent |-> Object(pivot),
     rigid_body_constraint |->
        [type |-> "GENERIC_SPRING",
         use_limit_lin_x |-> TRUE, use_limit_lin_y |-> TRUE, use_limit_lin_z |-> TRUE,
         limit_lin_x_lower |-> 0, limit_lin_x_upper |-> 0,
         limit_lin_y_lower |-> 0, limit_lin_y_upper |-> 0,
         limit_lin_z_lower |-> 0, limit_lin_z_upper |-> 0,
         use_limit_ang_x |-> FALSE, use_limit_ang_y |-> TRUE, use_limit_ang_z |-> TRUE,
         limit_ang_y_lower |-> radians(physics.zAngleLimits.min),
         limit_ang_y_upper |-> radians(physics.zAngleLimits.max),
         limit_ang_z_lower |-> radians(physics.yAngleLimits.min),
         limit_ang_z_upper |-> radians(physics.yAngleLimits.max),
         use_spring_ang_x |-> TRUE, use_spring_ang_y |-> TRUE, use_spring_ang_z |-> TRUE,
         spring_stiffness_y |-> physics.angularStiffness,
         spring_stiffness_z |-> physics.angularStiffness,
         object1 |-> pivot,
         object2 |-> target]]

\* lines 395-406
NoCollisionJoint(obj, parent_obj) ==
    [name   |-> sNoCollisionJoint,
     data   |-> [mesh |-> "none"],
     parent |-> Object(parent_obj),
     rigid_body_constraint |->
        [type |-> "GENERIC_SPRING", object1 |-> obj, object2 |-> parent_obj]]

\* faulty variant: the inner loop starts at i instead of i + 1
RECURSIVE NoCollisionJoints_FromI(_,_,_)
NoCollisionJoints_FromI(rbs, i, j) ==
    IF i > Len(rbs) THEN <<>>
    ELSE IF j > Len(rbs) THEN NoCollisionJoints_FromI(rbs, i + 1, i + 1)
    ELSE <<NoCollisionJoint(rbs[i], rbs[j])>> \o NoCollisionJoints_FromI(rbs, i, j + 1)

\* lines 407-410: the joints of set_no_collision(rbs[i], rbs[j]) for j > i, from (i, j) on
RECURSIVE NoCollisionJoints(_,_,_)
NoCollisionJoints(rbs, i, j) ==
    IF i > Len(rbs) THEN <<>>
    ELSE IF j > Len(rbs) THEN NoCollisionJoints(rbs, i + 1, i + 2)
    ELSE <<NoCollisionJoint(rbs[i], rbs[j])>> \o NoCollisionJoints(rbs, i, j + 1)

\* faulty variant: without a 'Position' bone the whole tree is walked
BonesToVisit_FallBackToRoot(bone, root) ==
    IF bone # 0 THEN dfs_generator(bone) ELSE dfs_generator(root)

\* lines 287-288: nothing is walked when 'Position' was not found
BonesToVisit(bone, root) ==
    IF bone # 0 THEN dfs_generator(bone) ELSE <<>>

\* lines 281-287: the call for the next Armature of the list
PhysBegin ==
    /\ pc = "done"
    /\ physIdx < Len(armatures)
    /\ physIdx' = physIdx + 1
    /\ LET bone == recursive_locate_by_name(armatures[physIdx + 1].root, sPosition)
       IN  walk' = BonesToVisit(bone, armatures[physIdx + 1].root)
    /\ target_rigid_bodies' = <<>>
    /\ callStart' = [scene |-> Len(scene), poses |-> Len(pose_constraints)]
    /\ run' = 1
    /\ pc' = "phys"
    /\ UNCHANGED <<env, static_mesh_gameobjects, transform_roots, rootIdx, armature,
                   path_id_tbl, callStack, bones, made, armatures, raisedAt, scene,
                   pose_constraints>>

\* lines 281-287: one more call for the same Armature, on the scene as it is
PhysAgain ==
    /\ pc = "done"
    /\ physIdx >= 1
    /\ run < MaxRuns
    /\ run' = run + 1
    /\ LET bone == recursive_locate_by_name(armatures[physIdx].root, sPosition)
       IN  walk' = BonesToVisit(bone, armatures[physIdx].root)
    /\ target_rigid_bodies' = <<>>
    /\ callStart' = [scene |-> Len(scene), poses |-> Len(pose_constraints)]
    /\ pc' = "phys"
    /\ UNCHANGED <<env, static_mesh_gameobjects, transform_roots, rootIdx, armature,
                   path_id_tbl, callStack, bones, made, armatures, raisedAt, physIdx,
                   scene, pose_constraints>>

\* lines 288-393: one iteration of the loop over bone.dfs_generator()
PhysBone ==
    /\ pc = "phys"
    /\ walk # <<>>
    /\ LET child == Head(walk)
           physics == bones[child].physics
           st0 == [scene   |-> IF physics # NoPhysics /\ IsCollider(physics.type)
                               THEN Append(scene, Collider(physIdx, child))
                               ELSE scene,
                   targets |-> target_rigid_bodies]
       IN  IF physics # NoPhysics /\ IsBone(physics.type) /\ physics.type = "SpringBone"
           THEN LET st1 == ensure_bone_rigidbody(st0, physIdx, physics.pivot, TRUE,
                                                 PIVOT_SIZE)
                    st2 == ensure_bone_rigidbody(st1, physIdx, bones[child].name, FALSE,
                               Scaled(physics.radius, SPRINGBONE_RADIUS_FACTOR))
                IN  /\ scene' = Append(st2.scene,
                                       SpringBoneJoint(physics, st1.obj, st2.obj))
                    /\ target_rigid_bodies' = st2.targets
                    /\ pose_constraints' =
                          Append(pose_constraints,
                                 [armature |-> physIdx, bone |-> bones[child].name,
                                  type |-> "COPY_TRANSFORMS", target |-> st2.obj])
           ELSE /\ scene' = st0.scene
                /\ UNCHANGED <<target_rigid_bodies, pose_constraints>>
    /\ walk' = Tail(walk)
    /\ UNCHANGED <<env, pc, static_mesh_gameobjects, transform_roots, rootIdx, armature,
                   path_id_tbl, callStack, bones, made, armatures, raisedAt, physIdx,
                   callStart, run>>

\* lines 394-410 and the return of the call
PhysNoCollision ==
    /\ pc = "phys"
    /\ walk = <<>>
    /\ scene' = scene \o NoCollisionJoints(
                            [i \in 1..Len(target_rigid_bodies) |-> target_rigid_bodies[i][2]],
                            1, 2)
    /\ pc' = "done"
    /\ UNCHANGED <<env, static_mesh_gameobjects, transform_roots, rootIdx, armature,
                   path_id_tbl, callStack, bones, made, armatures, raisedAt, physIdx, walk,
                   pose_constraints, target_rigid_bodies, callStart, run>>

Next ==
    \/ Collect
    \/ BeginRoot
    \/ Visit
    \/ EndRoot
    \/ Return
    \/ PhysBegin
    \/ PhysAgain
    \/ PhysBone
    \/ PhysNoCollision

Spec == Init /\ [][Next]_vars

TypeOK ==
    /\ pc \in {"collect", "roots", "dfs", "done", "raised", "phys"}
    /\ Len(made) = Len(bones)

-----------------------------------------------------------------------------
(* Vocabulary of the properties *)

Range(seq) == {seq[k] : k \in 1..Len(seq)}

Count(seq, x) == Cardinality({k \in 1..Len(seq) : seq[k] = x})

IndexOf(seq, x) == CHOOSE k \in 1..Len(seq) : seq[k] = x

\* the root Transform above Transform t
RECURSIVE TransformRoot(_)
TransformRoot(t) ==
    IF env.transform[t].m_Father = 0 THEN t
    ELSE TransformRoot(env.transform[t].m_Father)

Subtree(r) == {t \in 1..env.n : TransformRoot(t) = r}

HasSkinned(r) ==
    \E t \in Subtree(r) : env.gameObject[env.transform[t].m_GameObject].m_SkinnedMeshRenderer

\* Bones reachable from Bone b through children lists
RECURSIVE ReachFrom(_,_)
ReachFrom(S, k) ==
    IF k = 0 THEN S
    ELSE ReachFrom(S \cup UNION {Range(bones[b].children) : b \in S}, k - 1)

BonesOf(arm) == ReachFrom({arm.root}, Len(bones))

\* b reaches the Bone top by at most k parent links
RECURSIVE ClimbsTo(_,_,_)
ClimbsTo(b, top, k) ==
    IF b = top THEN TRUE
    ELSE IF k = 0 \/ bones[b].parent = 0 THEN FALSE
    ELSE ClimbsTo(bones[b].parent, top, k - 1)

Returned == pc \in {"done", "phys"}

\* the moment search_env_meshes returns
JustReturned == pc = "done" /\ physIdx = 0

-----------------------------------------------------------------------------
(* C1 *)

IsTree(arm) ==
    LET T == BonesOf(arm)
    IN  /\ arm.root \in 1..Len(bones)
        /\ \A b \in T : (bones[b].parent = 0) <=> (b = arm.root)
        /\ \A b \in T \ {arm.root} :
              /\ bones[b].parent \in T
              /\ Count(bones[bones[b].parent].children, b) = 1
              /\ \A p \in 1..Len(bones) : b \in Range(bones[p].children) => p = bones[b].parent
              /\ ClimbsTo(bones[b].parent, arm.root, Len(bones))
        /\ arm.root \notin UNION {Range(bones[p].children) : p \in 1..Len(bones)}

\* C1: every Armature search_env_meshes returns has exactly one root Bone
\* (armature.root, the only Bone without parent); every other Bone reachable
\* from it has exactly one parent, occurs exactly once in that parent's
\* children list, and the links contain no cycle.
C1_ArmatureIsTree == \A k \in 1..Len(armatures) : IsTree(armatures[k])

C1_Witness ==
    /\ Returned
    /\ \E k \in 1..Len(armatures) :
          \E b \in BonesOf(armatures[k]) :
             /\ Len(bones[armatures[k].root].children) >= 2
             /\ bones[b].parent # 0
             /\ bones[b].parent # armatures[k].root

-----------------------------------------------------------------------------
(* C2 *)

\* C2 as stated: a non-root Bone's path-from-root is its parent's path, "/"
\* and its own name; the armature root's path-from-root is its own name.
C2_PathIncludesRoot ==
    \A b \in 1..Len(bones) :
        bones[b].global_path =
            IF bones[b].parent = 0 THEN bones[b].name
            ELSE bones[bones[b].parent].global_path \o <<Slash>> \o bones[b].name

\* C2 amended: the armature root's path-from-root is the empty string; a Bone
\* whose parent's path is empty (a child of the root) has its own name as
\* path; any other Bone's path is its parent's path, "/" and its own name.
C2_PathRelativeToRoot ==
    \A b \in 1..Len(bones) :
        bones[b].global_path =
            IF bones[b].parent = 0 THEN sEmpty
            ELSE IF bones[bones[b].parent].global_path = sEmpty THEN bones[b].name
            ELSE bones[bones[b].parent].global_path \o <<Slash>> \o bones[b].name

C2_Witness ==
    /\ Returned
    /\ \E b \in 1..Len(bones) :
          /\ bones[b].parent # 0
          /\ bones[bones[b].parent].parent # 0
          /\ bones[b].global_path = sHips \o <<Slash>> \o sSpine

-----------------------------------------------------------------------------
(* C3 *)

\* the forest Position -> Hips -> Spine, no physics components
IsChainScenario ==
    /\ env.n = 3
    /\ env.transform[1].m_Father = 0
    /\ env.transform[2].m_Father = 1
    /\ env.transform[3].m_Father = 2
    /\ env.gameObject[1].m_Name = sPosition
    /\ env.gameObject[2].m_Name = sHips
    /\ env.gameObject[3].m_Name = sSpine
    /\ \A i \in 1..3 : \A k \in 1..Len(env.gameObject[i].m_Components) :
          env.gameObject[i].m_Components[k].type # "MonoBehaviour"
    /\ \E i \in 1..3 : env.gameObject[i].m_SkinnedMeshRenderer

\* names of the ancestors of b from the armature root down to b, joined by "/"
RECURSIVE FullPath(_)
FullPath(b) ==
    IF bones[b].parent = 0 THEN bones[b].name
    ELSE FullPath(bones[b].parent) \o <<Slash>> \o bones[b].name

\* the path the amended C2 describes, recomputed from names and parent links
RECURSIVE RelativePath(_)
RelativePath(b) ==
    IF bones[b].parent = 0 THEN sEmpty
    ELSE IF RelativePath(bones[b].parent) = sEmpty THEN bones[b].name
    ELSE RelativePath(bones[b].parent) \o <<Slash>> \o bones[b].name

\* the hash of the path-from-root of every Bone of arm
PathHashes(arm) ==
    LET pairs == {<<b, get_name_hash(bones[b].global_path)>> : b \in BonesOf(arm)}
    IN  [b \in BonesOf(arm) |-> (CHOOSE p \in pairs : p[1] = b)[2]]

DistinctKeys(arm) ==
    LET H == PathHashes(arm)
    IN  \A a, b \in BonesOf(arm) :
            a # b => bones[a].name # bones[b].name /\ H[a] # H[b]

\* C3 as stated: the chain scenario gives root "Position", 3 names and the 3
\* hash keys of "Position", "Position/Hips", "Position/Hips/Spine"; with
\* pairwise distinct names and path hashes every Bone is found under the hash
\* of its full path starting at the root's name, and under its name.
C3_KeysOfFullPaths ==
    JustReturned =>
        \A k \in 1..Len(armatures) :
            LET arm == armatures[k]
            IN  /\ IsChainScenario =>
                      /\ bones[arm.root].name = sPosition
                      /\ Cardinality(DOMAIN arm.bone_name_tbl) = 3
                      /\ DOMAIN arm.bone_path_hash_tbl =
                            {get_name_hash(sPosition),
                             get_name_hash(sPosition \o <<Slash>> \o sHips),
                             get_name_hash(sPosition \o <<Slash>> \o sHips
                                                     \o <<Slash>> \o sSpine)}
                /\ DistinctKeys(arm) =>
                      \A b \in BonesOf(arm) :
                          /\ get_name_hash(FullPath(b)) \in DOMAIN arm.bone_path_hash_tbl
                          /\ arm.bone_path_hash_tbl[get_name_hash(FullPath(b))] = b
                          /\ arm.bone_name_tbl[bones[b].name] = b

\* C3 amended: the keys are the hashes of the paths relative to the root: "",
\* "Hips" and "Hips/Spine" in the chain scenario; with pairwise distinct names
\* and path hashes every Bone is found under the hash of its path-from-root
\* (as in the amended C2), and under its name.
C3_KeysOfRelativePaths ==
    JustReturned =>
        \A k \in 1..Len(armatures) :
            LET arm == armatures[k]
            IN  /\ IsChainScenario =>
                      /\ bones[arm.root].name = sPosition
                      /\ Cardinality(DOMAIN arm.bone_name_tbl) = 3
                      /\ Cardinality(DOMAIN arm.bone_path_hash_tbl) = 3
                      /\ DOMAIN arm.bone_path_hash_tbl =
                            {get_name_hash(sEmpty),
                             get_name_hash(sHips),
                             get_name_hash(sHips \o <<Slash>> \o sSpine)}
                /\ DistinctKeys(arm) =>
                      \A b \in BonesOf(arm) :
                          /\ get_name_hash(RelativePath(b)) \in DOMAIN arm.bone_path_hash_tbl
                          /\ arm.bone_path_hash_tbl[get_name_hash(RelativePath(b))] = b
                          /\ bones[b].name \in DOMAIN arm.bone_name_tbl
                          /\ arm.bone_name_tbl[bones[b].name] = b

C3_Witness ==
    /\ JustReturned
    /\ IsChainScenario
    /\ Len(armatures) = 1
    /\ DistinctKeys(armatures[1])
    /\ Cardinality(BonesOf(armatures[1])) = 3

-----------------------------------------------------------------------------
(* C4 *)

RootOfArmature(arm) == made[arm.root]

Before(objs, x, y) ==
    \E i, j \in 1..Len(objs) :
        /\ i < j
        /\ objs[i] = [type |-> "Transform", path_id |-> x]
        /\ objs[j] = [type |-> "Transform", path_id |-> y]

\* C4: search_env_meshes returns exactly one Armature for each root Transform
\* (father path id 0) whose subtree holds a GameObject with a skinned mesh
\* renderer, none for any other root, in the order the roots occur in
\* env.objects.
C4_OneArmaturePerSkinnedRoot ==
    Returned =>
        /\ \A k \in 1..Len(armatures) :
              /\ env.transform[RootOfArmature(armatures[k])].m_Father = 0
              /\ HasSkinned(RootOfArmature(armatures[k]))
        /\ \A r \in 1..env.n :
              (env.transform[r].m_Father = 0 /\ HasSkinned(r)) =>
                  Cardinality({k \in 1..Len(armatures) :
                                  RootOfArmature(armatures[k]) = r}) = 1
        /\ \A k, l \in 1..Len(armatures) :
              k < l => Before(env.objects, RootOfArmature(armatures[k]),
                              RootOfArmature(armatures[l]))

C4_Witness ==
    /\ Returned
    /\ Len(armatures) = 2
    /\ RootOfArmature(armatures[1]) > RootOfArmature(armatures[2])
    /\ \E r \in 1..env.n : env.transform[r].m_Father = 0 /\ ~HasSkinned(r)

-----------------------------------------------------------------------------
(* C5 *)

GameObjectOf(t) == env.gameObject[env.transform[t].m_GameObject]

Recognised(component) ==
    /\ component.type = "MonoBehaviour"
    /\ component.m_Script.path_id # 0
    /\ component.m_Script.name \in {"SpringSphereCollider", "SpringCapsuleCollider",
                                    "SekaiSpringBone", "SpringManager"}

\* the pivot path ids named by the recognised physics scripts of Transform t
PivotIds(t) ==
    {GameObjectOf(t).m_Components[k].typetree.pivotNode.m_PathID :
        k \in {j \in 1..Len(GameObjectOf(t).m_Components) :
                  /\ Recognised(GameObjectOf(t).m_Components[j])
                  /\ "pivotNode" \in DOMAIN GameObjectOf(t).m_Components[j].typetree}}

\* the pivot path id named by the last recognised script of t, if it names one
LastPivotIds(t) ==
    LET comps == GameObjectOf(t).m_Components
        rec == {j \in 1..Len(comps) : Recognised(comps[j])}
    IN  {comps[j].typetree.pivotNode.m_PathID :
            j \in {i \in rec : /\ \A h \in rec : h <= i
                               /\ "pivotNode" \in DOMAIN comps[i].typetree}}

\* Bones built for Transform P before the visit of Transform t, in the traversal
\* of the root of t; upTo = number of Bones built before that visit
EarlierBones(P, t, upTo) ==
    {a \in 1..upTo : /\ made[a] = P
                     /\ P \in 1..env.n
                     /\ TransformRoot(P) = TransformRoot(t)}

\* C5: in the traversal of one root, a recognised physics script naming pivot
\* path id P gets the name of the Bone built for P as pivot when P was visited
\* earlier in pre-order, and otherwise (P visited later, or not at all) the
\* visit fails with a lookup error and builds no Bone.
C5_PivotResolvedInOrder ==
    /\ \A b \in 1..Len(bones) :
          /\ \A P \in PivotIds(made[b]) : EarlierBones(P, made[b], b - 1) # {}
          /\ \A P \in LastPivotIds(made[b]) :
                \E a \in EarlierBones(P, made[b], b - 1) :
                    bones[b].physics.pivot = bones[a].name
    /\ pc = "raised" =>
          /\ raisedAt \notin Range(made)
          /\ \E P \in PivotIds(raisedAt) : EarlierBones(P, raisedAt, Len(bones)) = {}

C5_Witness ==
    /\ pc = "raised"
    /\ \E b \in 1..Len(bones) :
          /\ bones[b].physics # NoPhysics
          /\ bones[b].physics.pivot # None
          /\ TransformRoot(made[b]) = TransformRoot(raisedAt)
    /\ \E P \in PivotIds(raisedAt) :
          /\ P \in 1..env.n
          /\ P # raisedAt
          /\ TransformRoot(P) = TransformRoot(raisedAt)

-----------------------------------------------------------------------------
(* C6 *)

\* C6: an unresolved pivot id met while building one root's Armature aborts
\* only that Armature: the call is lost as a whole only if there was nothing
\* else to return (no static-mesh GameObject, no sibling root with a skinned
\* GameObject).
C6_SiblingsSurvive ==
    pc = "raised" =>
        /\ static_mesh_gameobjects = <<>>
        /\ \A r \in Range(transform_roots) :
              r # TransformRoot(raisedAt) => ~HasSkinned(r)

-----------------------------------------------------------------------------
(* Vocabulary of the physics properties *)

\* the call of import_armature_physics_constraints for Armature physIdx has returned
CallDone == pc = "done" /\ physIdx >= 1

\* the Bone named 'Position' met first in pre-order (Bones are numbered in
\* pre-order), or 0
PositionBone(arm) ==
    LET named == {b \in BonesOf(arm) : bones[b].name = sPosition}
    IN  IF named = {} THEN 0 ELSE CHOOSE b \in named : \A c \in named : b <= c

RECURSIVE Ascending(_,_)
Ascending(S, from) ==
    IF from > Len(bones) THEN <<>>
    ELSE (IF from \in S THEN <<from>> ELSE <<>>) \o Ascending(S, from + 1)

\* the SpringBone-tagged Bones at or under 'Position', in pre-order
SpringBones(arm) ==
    IF PositionBone(arm) = 0 THEN <<>>
    ELSE Ascending({c \in BonesOf(arm) :
                       /\ ClimbsTo(c, PositionBone(arm), Len(bones))
                       /\ bones[c].physics # NoPhysics
                       /\ bones[c].physics.type = "SpringBone"}, 1)

IsPivotBody(o, bone_name) ==
    /\ "rigid_body" \in DOMAIN scene[o]
    /\ scene[o].rigid_body.type = "ACTIVE"
    /\ scene[o].rigid_body.kinematic
    /\ scene[o].parent_bone = bone_name

IsTargetBody(o) ==
    /\ "rigid_body" \in DOMAIN scene[o]
    /\ scene[o].rigid_body.type = "ACTIVE"
    /\ ~scene[o].rigid_body.kinematic

PivotName(arm, c) == get_rb_name(arm.name, bones[c].physics.pivot, TRUE)

TargetName(arm, c) == get_rb_name(arm.name, bones[c].name, FALSE)

Named(name) == {o \in 1..Len(scene) : scene[o].name = name}

\* objects of the given name added to the scene by the current call, in order
RECURSIVE AddedSince(_,_)
AddedSince(name, from) ==
    IF from > Len(scene) THEN <<>>
    ELSE (IF scene[from].name = name THEN <<from>> ELSE <<>>) \o AddedSince(name, from + 1)

SpringJoints == AddedSince(sSpringBoneJoint, callStart.scene + 1)

NoCollisionLinks == AddedSince(sNoCollisionJoint, callStart.scene + 1)

-----------------------------------------------------------------------------
(* C7 *)

\* C7: pivot and target bodies are looked up or created under the name
\* '<armature name>_<bone name>_<pivot|target>_rigidbody': when two distinct
\* SpringBone Bones under 'Position' name the same pivot bone, exactly one
\* pivot rigid body exists for that pivot after the call and the spring joints
\* of both Bones have it as object1.
C7_OnePivotBody ==
    CallDone =>
        LET arm == armatures[physIdx]
            SB == SpringBones(arm)
        IN  /\ Len(SpringJoints) = Len(SB)
            /\ \A i, j \in 1..Len(SB) :
                  (i # j /\ bones[SB[i]].physics.pivot = bones[SB[j]].physics.pivot) =>
                      /\ Cardinality(Named(PivotName(arm, SB[i]))) = 1
                      /\ \A o \in 1..Len(scene) :
                            (/\ IsPivotBody(o, bones[SB[i]].physics.pivot)
                             /\ scene[o].parent = ArmatureObject(physIdx))
                                => o \in Named(PivotName(arm, SB[i]))
                      /\ \A o \in Named(PivotName(arm, SB[i])) :
                            /\ IsPivotBody(o, bones[SB[i]].physics.pivot)
                            /\ scene[SpringJoints[i]].rigid_body_constraint.object1 = o
                            /\ scene[SpringJoints[j]].rigid_body_constraint.object1 = o

C7_Witness ==
    /\ CallDone
    /\ \E i, j \in 1..Len(SpringBones(armatures[physIdx])) :
          /\ i # j
          /\ bones[SpringBones(armatures[physIdx])[i]].physics.pivot
                = bones[SpringBones(armatures[physIdx])[j]].physics.pivot
          /\ bones[SpringBones(armatures[physIdx])[i]].name
                # bones[SpringBones(armatures[physIdx])[j]].name

-----------------------------------------------------------------------------
(* C8 *)

\* the target bodies of the rig of Armature arm
TargetBodies(arm) ==
    UNION {Named(TargetName(arm, SpringBones(arm)[i])) : i \in 1..Len(SpringBones(arm))}

LinkEnds(j) == {scene[j].rigid_body_constraint.object1, scene[j].rigid_body_constraint.object2}

\* no target body of the rig was in the scene when the call began
FreshRig(arm) == \A o \in TargetBodies(arm) : o > callStart.scene

-----------------------------------------------------------------------------
(* C9 *)

HasNoPosition(arm) == \A b \in BonesOf(arm) : bones[b].name # sPosition

\* C9: when no Bone of the Armature is named 'Position', the call walks no
\* Bone and returns having added no rigid body, spring joint, no-collision
\* link or pose constraint, whatever physics descriptors the Bones carry.
C9_NoPositionNoPhysics ==
    (pc \in {"phys", "done"} /\ physIdx >= 1 /\ HasNoPosition(armatures[physIdx])) =>
        /\ walk = <<>>
        /\ Len(scene) = callStart.scene
        /\ Len(pose_constraints) = callStart.poses
        /\ target_rigid_bodies = <<>>

C9_Witness ==
    /\ CallDone
    /\ HasNoPosition(armatures[physIdx])
    /\ \E b \in BonesOf(armatures[physIdx]) :
          bones[b].physics # NoPhysics /\ bones[b].physics.type = "SpringBone"

-----------------------------------------------------------------------------
(* C10 *)

PosesAdded == SubSeq(pose_constraints, callStart.poses + 1, Len(pose_constraints))

\* C10: every SpringBone-tagged Bone under 'Position' gets one constraint with
\* object1 = its pivot body and object2 = its target body, linear motion
\* locked on all three axes (lower = upper = 0), angular X not limited, the
\* angular Y limit taken from the descriptor's z angle limits and the angular
\* Z limit from its y angle limits, and one pose constraint on that Bone whose
\* target is the target body.
C10_SpringJointPerBone ==
    CallDone =>
        LET arm == armatures[physIdx]
            SB == SpringBones(arm)
        IN  /\ Len(SpringJoints) = Len(SB)
            /\ Len(PosesAdded) = Len(SB)
            /\ \A i \in 1..Len(SB) :
                  LET ct == scene[SpringJoints[i]].rigid_body_constraint
                      physics == bones[SB[i]].physics
                  IN  /\ Named(PivotName(arm, SB[i])) = {ct.object1}
                      /\ IsPivotBody(ct.object1, physics.pivot)
                      /\ Named(TargetName(arm, SB[i])) = {ct.object2}
                      /\ IsTargetBody(ct.object2)
                      /\ ct.use_limit_lin_x /\ ct.use_limit_lin_y /\ ct.use_limit_lin_z
                      /\ ct.limit_lin_x_lower = 0 /\ ct.limit_lin_x_upper = 0
                      /\ ct.limit_lin_y_lower = 0 /\ ct.limit_lin_y_upper = 0
                      /\ ct.limit_lin_z_lower = 0 /\ ct.limit_lin_z_upper = 0
                      /\ ~ct.use_limit_ang_x
                      /\ ct.use_limit_ang_y /\ ct.use_limit_ang_z
                      /\ ct.limit_ang_y_lower = radians(physics.zAngleLimits.min)
                      /\ ct.limit_ang_y_upper = radians(physics.zAngleLimits.max)
                      /\ ct.limit_ang_z_lower = radians(physics.yAngleLimits.min)
                      /\ ct.limit_ang_z_upper = radians(physics.yAngleLimits.max)
                      /\ PosesAdded[i].bone = bones[SB[i]].name
                      /\ PosesAdded[i].armature = physIdx
                      /\ PosesAdded[i].target = ct.object2

C10_Witness ==
    /\ CallDone
    /\ Len(SpringBones(armatures[physIdx])) >= 2
    /\ \E i \in 1..Len(SpringBones(armatures[physIdx])) :
          LET physics == bones[SpringBones(armatures[physIdx])[i]].physics
          IN  /\ physics.zAngleLimits # physics.yAngleLimits
              /\ physics.pivot # bones[SpringBones(armatures[physIdx])[i]].name

-----------------------------------------------------------------------------
(* C11 *)

\* the Transforms of the tree under t, in depth-first pre-order
RECURSIVE PreOrder(_)
RECURSIVE PreOrderAmong(_)
PreOrder(t) == <<t>> \o PreOrderAmong(env.transform[t].m_Children)

PreOrderAmong(children) ==
    IF children = <<>> THEN <<>>
    ELSE PreOrder(Head(children)) \o PreOrderAmong(Tail(children))

\* the Transforms of the root of t that come strictly before t in pre-order
EarlierInPreOrder(t) ==
    LET order == PreOrder(TransformRoot(t))
    IN  {order[i] : i \in 1..(IndexOf(order, t) - 1)}

\* the id table maps exactly the Transforms in S, each to the Bone built for it
TableHolds(S) ==
    /\ DOMAIN path_id_tbl = S
    /\ \A id \in S : /\ path_id_tbl[id] \in 1..Len(bones)
                     /\ made[path_id_tbl[id]] = id

\* C11: when dfs is about to visit Transform t (and when that visit has failed
\* at the pivot lookup), the id table holds exactly the Bones built for the
\* Transforms of the root of t that precede t in pre-order: nothing of another
\* root, and not t itself.  So every pivot id that did resolve names a
\* Transform of the same root strictly earlier in pre-order, and a failed
\* visit named a pivot id outside that set.
C11_TableOfEarlierBones ==
    /\ (pc = "dfs" /\ callStack # <<>>) =>
          TableHolds(EarlierInPreOrder(Head(callStack).transform))
    /\ pc = "raised" =>
          /\ TableHolds(EarlierInPreOrder(raisedAt))
          /\ \E P \in PivotIds(raisedAt) : P \notin EarlierInPreOrder(raisedAt)
    /\ \A b \in 1..Len(bones) :
          \A P \in PivotIds(made[b]) :
              /\ P \in EarlierInPreOrder(made[b])
              /\ P # made[b]
              /\ TransformRoot(P) = TransformRoot(made[b])

\* a pivot id registered while traversing an earlier root fails to resolve,
\* although the table of the current root is not empty
C11_Witness ==
    /\ pc = "raised"
    /\ path_id_tbl # EmptyDict
    /\ \E P \in PivotIds(raisedAt) :
          /\ P \in Range(made)
          /\ TransformRoot(P) # TransformRoot(raisedAt)

\* a descriptor whose pivot is its own Transform fails to resolve
C11_SelfPivotRaises ==
    /\ pc = "raised"
    /\ raisedAt \in PivotIds(raisedAt)
    /\ path_id_tbl # EmptyDict

-----------------------------------------------------------------------------
(* C12 *)

\* position of the Transform of each Bone in T in the pre-order of the root r
VisitRank(T, r) ==
    LET order == PreOrder(r)
    IN  [b \in T |-> IndexOf(order, made[b])]

\* the Bone visited last among the Bones in S
LastVisited(S, rank) == CHOOSE b \in S : \A c \in S : rank[c] <= rank[b]

\* the index tbl, keyed by key[b] for the Bones b in T, is what silent
\* overwriting leaves: one entry per distinct key, holding the Bone visited
\* last among those of that key, so that a Bone is a value of the index
\* exactly when no Bone of the same key was visited after it
OverwrittenIndex(tbl, T, key, rank) ==
    /\ DOMAIN tbl = {key[b] : b \in T}
    /\ Cardinality(DOMAIN tbl) = Cardinality({key[b] : b \in T})
    /\ \A b \in T : tbl[key[b]] = LastVisited({c \in T : key[c] = key[b]}, rank)
    /\ {tbl[x] : x \in DOMAIN tbl} =
          {b \in T : \A c \in T : key[c] = key[b] => rank[c] <= rank[b]}

\* C12: in every returned Armature, bone_name_tbl (keyed by name) and
\* bone_path_hash_tbl (keyed by the hash of the path-from-root) hold one entry
\* per distinct key; a key shared by several Bones maps to the one visited
\* last in pre-order, the earlier ones stay Bones of the tree but are no value
\* of that index, and the index has as many entries as there are distinct
\* keys.
C12_LaterBoneWins ==
    JustReturned =>
        \A k \in 1..Len(armatures) :
            LET arm == armatures[k]
                T == BonesOf(arm)
                rank == VisitRank(T, RootOfArmature(arm))
                names == [b \in T |-> bones[b].name]
                hashes == PathHashes(arm)
            IN  /\ IsTree(arm)
                /\ OverwrittenIndex(arm.bone_name_tbl, T, names, rank)
                /\ OverwrittenIndex(arm.bone_path_hash_tbl, T, hashes, rank)

\* one Armature with two Bones of the same name and two Bones of different
\* paths with the same hash: both indexes are smaller than the tree
C12_Witness ==
    /\ JustReturned
    /\ \E k \in 1..Len(armatures) :
          LET arm == armatures[k]
              T == BonesOf(arm)
          IN  /\ \E a, b \in T : a # b /\ bones[a].name = bones[b].name
              /\ \E a, b \in T :
                    /\ bones[a].global_path # bones[b].global_path
                    /\ get_name_hash(bones[a].global_path)
                          = get_name_hash(bones[b].global_path)
              /\ Cardinality(DOMAIN arm.bone_name_tbl) < Cardinality(T)
              /\ Cardinality(DOMAIN arm.bone_path_hash_tbl) < Cardinality(T)

-----------------------------------------------------------------------------
(* C13 *)

\* the pivot and target bodies the current call created
BodiesCreated ==
    {o \in (callStart.scene + 1)..Len(scene) :
        "rigid_body" \in DOMAIN scene[o] /\ scene[o].rigid_body.type = "ACTIVE"}

TargetsCreated == {o \in BodiesCreated : IsTargetBody(o)}

\* C13: after a call, every SpringBone Bone under 'Position' has exactly one
\* body of its target name and one of its pivot name in the scene; a target
\* body that was there before the call is object2 of the Bone's spring joint
\* and the target of its pose constraint, and is an end of no no-collision
\* link; the links added by the call are exactly one per unordered pair of
\* the target bodies it created.  A call that is not the first for its
\* Armature creates no pivot or target body and no link, and still adds one
\* spring joint and one pose constraint per SpringBone Bone.
C13_ReusedTargetsNotLinked ==
    CallDone =>
        LET arm == armatures[physIdx]
            SB == SpringBones(arm)
            N == TargetsCreated
        IN  /\ Len(SpringJoints) = Len(SB)
            /\ Len(PosesAdded) = Len(SB)
            /\ \A i \in 1..Len(SB) :
                  /\ Cardinality(Named(PivotName(arm, SB[i]))) = 1
                  /\ Cardinality(Named(TargetName(arm, SB[i]))) = 1
                  /\ \A o \in Named(TargetName(arm, SB[i])) :
                        /\ scene[SpringJoints[i]].rigid_body_constraint.object2 = o
                        /\ PosesAdded[i].target = o
                        /\ o <= callStart.scene =>
                              \A k \in 1..Len(NoCollisionLinks) :
                                  o \notin LinkEnds(NoCollisionLinks[k])
            /\ \A a, b \in N :
                  a # b => Cardinality({k \in 1..Len(NoCollisionLinks) :
                                           LinkEnds(NoCollisionLinks[k]) = {a, b}}) = 1
            /\ \A k \in 1..Len(NoCollisionLinks) :
                  /\ LinkEnds(NoCollisionLinks[k]) \subseteq N
                  /\ Cardinality(LinkEnds(NoCollisionLinks[k])) = 2
            /\ 2 * Len(NoCollisionLinks) = Cardinality(N) * (Cardinality(N) - 1)
            /\ run >= 2 =>
                  /\ BodiesCreated = {}
                  /\ NoCollisionLinks = <<>>

\* a call that found one of three target bodies in the scene and created the
\* other two: one link, between the two new bodies
C13_Witness ==
    /\ CallDone
    /\ run = 1
    /\ Len(SpringBones(armatures[physIdx])) = 3
    /\ Cardinality(TargetsCreated) = 2
    /\ Len(NoCollisionLinks) = 1
    /\ \E i \in 1..3 :
          \E o \in Named(TargetName(armatures[physIdx], SpringBones(armatures[physIdx])[i])) :
              o <= callStart.scene

\* a second call over the same Armature and scene: three spring joints and
\* pose constraints more, no body and no link
C13_SecondRun ==
    /\ CallDone
    /\ run = 2
    /\ Len(SpringBones(armatures[physIdx])) = 3
    /\ Len(SpringJoints) = 3
    /\ Len(PosesAdded) = 3
    /\ BodiesCreated = {}
    /\ Cardinality({o \in 1..Len(scene) : IsTargetBody(o)}) = 3

====
